---- MODULE Spec2Model ----
(***************************************************************************)
(* Model of src/streamlit_app.py: one render pass of the stock dashboard   *)
(* (ticker parsing, get_stock_data, RSI, sector check boxes, money flow,   *)
(* pivot, latest prices) and the pure function calculate_rsi.              *)
(*                                                                         *)
(* Floating point numbers are modelled as exact rationals extended with    *)
(* NaN and +/-infinity (IEEE rules for x/0, 0/0, inf arithmetic, NaN       *)
(* comparisons); rounding error and the sign of zero are not modelled.     *)
(* News lookup (lines 97-111) and the MACD arithmetic (lines 83-88) change *)
(* nothing the pass reads later; MACD is recorded as a rendered plot only. *)
(* The st.cache_data memo of get_stock_data is not modelled: one pass      *)
(* calls it once.  An uncaught exception ends the pass (pc = "crashed").   *)
(***************************************************************************)
EXTENDS Integers, Sequences, FiniteSets, TLC

\* ------------------------------------------------------------------ bounds
MaxTokens  == 2   \* comma separated pieces in the ticker text box
MaxDays    == 2   \* trading days the provider holds
MaxChecked == 2   \* the first MaxChecked sector check boxes may be ticked
MaxLen     == 4   \* length of a price series given to calculate_rsi
MaxStep    == 2   \* prices range over 100 .. 100 + MaxStep
MaxWindow  == 3   \* rolling windows 1 .. MaxWindow

\* --------------------------------------------------------- float arithmetic
Abs(x) == IF x < 0 THEN -x ELSE x

Sign(x) == IF x < 0 THEN -1 ELSE 1

RECURSIVE Gcd(_, _)
Gcd(a, b) == IF b = 0 THEN a ELSE Gcd(b, a % b)

NaN == [k |-> "nan", n |-> 0, d |-> 1]

Inf(s) == [k |-> "inf", n |-> s, d |-> 1]

Rat(n, d) ==
    LET g == Gcd(Abs(n), Abs(d))
    IN  [k |-> "num", n |-> (Sign(d) * n) \div g, d |-> Abs(d) \div g]

Num(x) == Rat(x, 1)

IsNaN(a) == a.k = "nan"

FNeg(a) ==
    CASE a.k = "nan" -> NaN
      [] a.k = "inf" -> Inf(-a.n)
      [] OTHER       -> Rat(-a.n, a.d)

FAdd(a, b) ==
    CASE a.k = "nan" \/ b.k = "nan"   -> NaN
      [] a.k = "inf" /\ b.k = "inf"   -> IF a.n = b.n THEN a ELSE NaN
      [] a.k = "inf"                  -> a
      [] b.k = "inf"                  -> b
      [] OTHER                        -> Rat(a.n * b.d + b.n * a.d, a.d * b.d)

FSub(a, b) == FAdd(a, FNeg(b))

FMul(a, b) ==
    CASE a.k = "nan" \/ b.k = "nan"   -> NaN
      [] a.k = "inf" /\ b.k = "inf"   -> Inf(a.n * b.n)
      [] a.k = "inf"                  -> IF b.n = 0 THEN NaN ELSE Inf(a.n * Sign(b.n))
      [] b.k = "inf"                  -> IF a.n = 0 THEN NaN ELSE Inf(b.n * Sign(a.n))
      [] OTHER                        -> Rat(a.n * b.n, a.d * b.d)

FDiv(a, b) ==
    CASE a.k = "nan" \/ b.k = "nan"   -> NaN
      [] a.k = "inf" /\ b.k = "inf"   -> NaN
      [] a.k = "inf"                  -> Inf(a.n * Sign(b.n))
      [] b.k = "inf"                  -> Num(0)
      [] b.n = 0                      -> IF a.n = 0 THEN NaN ELSE Inf(Sign(a.n))
      [] OTHER                        -> Rat(a.n * b.d, a.d * b.n)

\* a > b and a < b; any comparison with NaN is False
FGt(a, b) ==
    CASE a.k = "nan" \/ b.k = "nan"   -> FALSE
      [] a.k = "inf" /\ b.k = "inf"   -> a.n > b.n
      [] a.k = "inf"                  -> a.n > 0
      [] b.k = "inf"                  -> b.n < 0
      [] OTHER                        -> a.n * b.d > b.n * a.d

FLt(a, b) == FGt(b, a)

\* ----------------------------------------------------------- calculate_rsi
\* Series.diff(1): the first position has no predecessor and is NaN
diff(data) ==
    [i \in 1..Len(data) |-> IF i = 1 THEN NaN ELSE FSub(data[i], data[i-1])]

\* delta.where(delta > 0, 0.0)
where_gt0(delta) ==
    [i \in 1..Len(delta) |-> IF FGt(delta[i], Num(0)) THEN delta[i] ELSE Num(0)]

\* delta.where(delta < 0, 0.0)
where_lt0(delta) ==
    [i \in 1..Len(delta) |-> IF FLt(delta[i], Num(0)) THEN delta[i] ELSE Num(0)]

\* the minus sign of line 73 forgotten
neg_forgotten(s) == s

neg(s) == [i \in 1..Len(s) |-> FNeg(s[i])]

RECURSIVE SumObs(_, _, _)
SumObs(s, lo, hi) ==
    IF lo > hi THEN Num(0)
    ELSE IF IsNaN(s[hi]) THEN SumObs(s, lo, hi - 1)
    ELSE FAdd(SumObs(s, lo, hi - 1), s[hi])

\* the window never slides: an expanding mean
rolling_mean_expanding(s, window) ==
    [i \in 1..Len(s) |->
        LET cnt == Cardinality({j \in 1..i : ~IsNaN(s[j])})
        IN  IF cnt < 1 THEN NaN ELSE FDiv(SumObs(s, 1, i), Num(cnt))]

\* s.rolling(window=window, min_periods=1).mean()
rolling_mean(s, window) ==
    [i \in 1..Len(s) |->
        LET lo  == IF i - window + 1 < 1 THEN 1 ELSE i - window + 1
            cnt == Cardinality({j \in lo..i : ~IsNaN(s[j])})
        IN  IF cnt < 1 THEN NaN ELSE FDiv(SumObs(s, lo, i), Num(cnt))]

\* the fill of line 80 left out
fillna_skipped(s, v) == s

fillna(s, v) == [i \in 1..Len(s) |-> IF IsNaN(s[i]) THEN v ELSE s[i]]

calculate_rsi(data, window) ==
    LET delta    == diff(data)
        gain     == where_gt0(delta)
        loss     == neg(where_lt0(delta))
        avg_gain == rolling_mean(gain, window)
        avg_loss == rolling_mean(loss, window)
        rs       == [i \in 1..Len(data) |-> FDiv(avg_gain[i], avg_loss[i])]
        rsi      == [i \in 1..Len(data) |->
                        FSub(Num(100), FDiv(Num(100), FAdd(Num(1), rs[i])))]
    IN  fillna(rsi, Num(50))

\* ------------------------------------------------------------ the provider
Fields == {"Open", "High", "Low", "Close", "Adj Close", "Volume"}

\* the sectors dictionary, in insertion order (label, ETF symbol)
sectors ==
    << <<"Technology (XLK)", "XLK">>, <<"Energy (XLE)", "XLE">>,
       <<"Health Care (XLV)", "XLV">>, <<"Financials (XLF)", "XLF">>,
       <<"Consumer Discretionary (XLY)", "XLY">>,
       <<"Consumer Staples (XLP)", "XLP">>, <<"Industrials (XLI)", "XLI">>,
       <<"Utilities (XLU)", "XLU">>, <<"Materials (XLB)", "XLB">>,
       <<"Real Estate (XLRE)", "XLRE">>,
       <<"Communication Services (XLC)", "XLC">> >>

\* the pieces of the ticker text box between commas
RawTokens == {"AAPL", " aapl", " MSFT", " "}

\* ticker.strip().upper()
StripUpper(tok) ==
    CASE tok = "AAPL"  -> "AAPL"
      [] tok = " aapl" -> "AAPL"
      [] tok = " MSFT" -> "MSFT"
      [] tok = " "     -> ""

UserSymbols == {StripUpper(tok) : tok \in RawTokens} \ {""}

FieldCode(f) ==
    CASE f = "Low" -> 0 [] f = "Open" -> 1 [] f = "Close" -> 2
      [] f = "High" -> 3 [] f = "Adj Close" -> 4 [] f = "Volume" -> 5

TickerCode(t) == CHOOSE i \in 1..(2 + Len(sectors)) :
    t = (<<"AAPL", "MSFT">> \o [j \in 1..Len(sectors) |-> sectors[j][2]])[i]

\* the number the provider holds for (field, ticker, day); distinct fields and
\* distinct tickers never share a number
Quote(f, t, day) == 100 * TickerCode(t) + 10 * FieldCode(f) + ((2 * day) % 3)

Holes ==
    {[kind |-> "none", f |-> "", t |-> ""]}
    \cup {[kind |-> "field", f |-> f, t |-> ""] : f \in Fields}
    \cup {[kind |-> "cell", f |-> f, t |-> t] : f \in Fields, t \in UserSymbols}

\* what the provider answers: flat = single-level columns for a single-ticker
\* request; hole = a field absent for every ticker or for one ticker
Providers == [flat : BOOLEAN, hole : Holes, days : 0..MaxDays]

Present(pv, f, t) ==
    /\ ~(pv.hole.kind = "field" /\ pv.hole.f = f)
    /\ ~(pv.hole.kind = "cell" /\ pv.hole.f = f /\ pv.hole.t = t)

Range(s) == {s[i] : i \in 1..Len(s)}

Period5d == 5

\* table of a download: columns <<field, ticker>> (two-level) or <<field>>
\* (single-level), one value per date of the index
Frame(multi, cols, index, val) ==
    [none |-> FALSE, multi |-> multi, cols |-> cols, index |-> index, val |-> val]

None == [none |-> TRUE, multi |-> FALSE, cols |-> {}, index |-> <<>>, val |-> <<>>]

\* yf.download(tks, ...) answered by provider pv: one column group per
\* distinct requested ticker
yf_download(pv, tks, period) ==
    LET T     == Range(tks)
        first == IF period = "5d" /\ pv.days > Period5d
                 THEN pv.days - Period5d + 1 ELSE 1
        index == [i \in 1..(pv.days - first + 1) |-> first + i - 1]
        flat  == pv.flat /\ Cardinality(T) = 1
        only  == CHOOSE t \in T : TRUE
        cols  == IF flat
                 THEN {<<f>> : f \in {g \in Fields : Present(pv, g, only)}}
                 ELSE {<<f, t>> : f \in Fields, t \in T} \ 
                      {<<f, t>> : f \in {pv.hole.f}, t \in {u \in T : ~Present(pv, pv.hole.f, u)}}
        val   == [c \in cols |-> [i \in 1..Len(index) |->
                    Num(Quote(c[1], IF flat THEN only ELSE c[2], index[i]))]]
    IN  Frame(~flat, cols, index, val)

\* df.empty
empty(df) == Len(df.index) = 0 \/ df.cols = {}

\* df.columns.get_level_values(0)
level0(df) == {c[1] : c \in df.cols}

\* df[field] on two-level columns: the sub-table of that field, keyed by ticker
getitem(df, field) ==
    LET cs == {<<c[2]>> : c \in {x \in df.cols : x[1] = field}}
    IN  Frame(FALSE, cs, df.index, [c \in cs |-> df.val[<<field, c[1]>>]])

ErrFetch == "Failed to fetch stock data. Please check the ticker symbols and date range."

ErrFormat == "Unexpected data format received from yfinance."

\* the df.empty test of lines 19-21 left out
get_stock_data_unchecked(df) ==
    IF df.multi
    THEN IF "Close" \in level0(df)
         THEN [ret |-> getitem(df, "Close"), err |-> ""]
         ELSE [ret |-> None, err |-> ErrFormat]
    ELSE IF <<"Close">> \notin df.cols
         THEN [ret |-> None, err |-> ErrFormat]
         ELSE [ret |-> df, err |-> ""]

\* get_stock_data applied to the table yf.download returned
get_stock_data(df) ==
    IF empty(df) THEN [ret |-> None, err |-> ErrFetch]
    ELSE IF df.multi
         THEN IF "Close" \in level0(df)
              THEN [ret |-> getitem(df, "Close"), err |-> ""]
              ELSE [ret |-> None, err |-> ErrFormat]
         ELSE IF <<"Close">> \notin df.cols
              THEN [ret |-> None, err |-> ErrFormat]
              ELSE [ret |-> df, err |-> ""]

\* ---------------------------------------------------- calculate_money_flow
required_columns == <<"High", "Low", "Close", "Volume">>

\* data.xs(ticker, axis=1, level=1): the fields of one ticker; KeyError when
\* the ticker is not in level 1
xs(data, ticker) ==
    LET cs == {<<c[1]>> : c \in {x \in data.cols : x[2] = ticker}}
    IN  [raised |-> cs = {},
         df |-> Frame(FALSE, cs, data.index, [c \in cs |-> data.val[<<c[1], ticker>>]])]

\* the rows one ticker contributes: Date, Ticker, Money Flow
ticker_rows(td, ticker) ==
    [i \in 1..Len(td.index) |->
        LET typical == FDiv(FAdd(FAdd(td.val[<<"High">>][i], td.val[<<"Low">>][i]),
                                 td.val[<<"Close">>][i]), Num(3))
        IN  [Date |-> td.index[i], Ticker |-> ticker,
             MoneyFlow |-> FMul(typical, td.val[<<"Volume">>][i])]]

RECURSIVE money_flow_loop(_, _, _, _)
money_flow_loop(data, tks, i, results) ==
    IF i > Len(tks) THEN [raised |-> FALSE, exc |-> "", rows |-> results]
    ELSE LET ticker == tks[i]
             sel    == IF data.multi THEN xs(data, ticker)
                       ELSE [raised |-> FALSE, df |-> data]
             td     == sel.df
         IN  IF sel.raised
             THEN [raised |-> TRUE, exc |-> "KeyError", rows |-> <<>>]
             ELSE IF \E j \in 1..Len(required_columns) : <<required_columns[j]>> \notin td.cols
             THEN [raised |-> TRUE, exc |-> "KeyError", rows |-> <<>>]
             ELSE money_flow_loop(data, tks, i + 1, results \o ticker_rows(td, ticker))

calculate_money_flow(data, tks) == money_flow_loop(data, tks, 1, <<>>)

\* moneyflow_data.pivot(index='Date', columns='Ticker', values='Money Flow'):
\* ValueError when two rows share (Date, Ticker)
pivot(rows) ==
    IF \E i, j \in 1..Len(rows) :
          i # j /\ rows[i].Date = rows[j].Date /\ rows[i].Ticker = rows[j].Ticker
    THEN [raised |-> TRUE, exc |-> "ValueError", cells |-> <<>>]
    ELSE [raised |-> FALSE, exc |-> "",
          cells |-> [k \in {<<rows[i].Date, rows[i].Ticker>> : i \in 1..Len(rows)} |->
                       (CHOOSE r \in Range(rows) : r.Date = k[1] /\ r.Ticker = k[2]).MoneyFlow]]

\* --------------------------------------------------------- the render pass
VARIABLES
    pc,                 \* position in the script
    ticker_input,       \* the text box, as its comma separated pieces
    date_range,         \* number of dates the date picker holds
    provider,           \* what yfinance answers during this pass
    heap,               \* list objects: reference -> contents
    tickers,            \* reference bound to the name tickers
    moneyflow_tickers,  \* reference bound to the name moneyflow_tickers
    df,                 \* table downloaded inside get_stock_data
    stock_data,         \* value get_stock_data returned
    selected_stock,     \* select box choice
    series,             \* price series handed to calculate_rsi
    window,             \* its window argument
    rsi,                \* value calculate_rsi returned
    selected_sectors,   \* labels of the ticked sector check boxes
    df2,                \* table of the 5 day download
    moneyflow_data,     \* outcome of calculate_money_flow
    heatmap_data,       \* outcome of pivot
    calls,              \* calls made so far, in order
    out                 \* elements rendered on the page, in order

vars == <<pc, ticker_input, date_range, provider, heap, tickers, moneyflow_tickers,
          df, stock_data, selected_stock, series, window, rsi, selected_sectors,
          df2, moneyflow_data, heatmap_data, calls, out>>

DefaultWindow == 14

SeqsUpTo(S, lo, hi) == UNION {[1..n -> S] : n \in lo..hi}

NoResult == [raised |-> FALSE, exc |-> "", rows |-> <<>>]

NoPivot == [raised |-> FALSE, exc |-> "", cells |-> <<>>]

Elem(kind, arg) == [kind |-> kind, arg |-> arg]

\* state of the names the pass has not bound yet
Unbound ==
    /\ heap = [r \in {"list1"} |-> <<>>]
    /\ tickers = "unbound"
    /\ moneyflow_tickers = "unbound"
    /\ df = None
    /\ stock_data = None
    /\ selected_stock = ""
    /\ selected_sectors = {}
    /\ df2 = None
    /\ moneyflow_data = NoResult
    /\ heatmap_data = NoPivot
    /\ calls = <<>>
    /\ out = <<>>

Init ==
    /\ pc = "parse"
    /\ ticker_input \in SeqsUpTo(RawTokens, 1, MaxTokens)
    /\ date_range \in {1, 2}
    /\ provider \in Providers
    /\ series = <<>>
    /\ window = DefaultWindow
    /\ rsi = <<>>
    /\ Unbound

\* [ticker.strip().upper() for ticker in ticker_input.split(',') if ticker.strip()]
RECURSIVE parse_tickers(_)
parse_tickers(toks) ==
    IF toks = <<>> THEN <<>>
    ELSE LET t == StripUpper(Head(toks))
         IN  (IF t = "" THEN <<>> ELSE <<t>>) \o parse_tickers(Tail(toks))

\* lines 94-95: a fresh list is bound to tickers
ParseInput ==
    /\ pc = "parse"
    /\ heap' = [heap EXCEPT !["list1"] = parse_tickers(ticker_input)]
    /\ tickers' = "list1"
    /\ pc' = "gate"
    /\ UNCHANGED <<ticker_input, date_range, provider, moneyflow_tickers, df, stock_data,
                   selected_stock, series, window, rsi, selected_sectors, df2,
                   moneyflow_data, heatmap_data, calls, out>>

\* line 119
GateOpen == heap[tickers] # <<>> /\ date_range = 2

\* lines 221-222
WarnInvalid ==
    /\ pc = "gate"
    /\ ~GateOpen
    /\ out' = Append(out, Elem("warning", "Please enter at least one valid stock ticker and a valid date range."))
    /\ pc' = "done"
    /\ UNCHANGED <<ticker_input, date_range, provider, heap, tickers, moneyflow_tickers,
                   df, stock_data, selected_stock, series, window, rsi, selected_sectors,
                   df2, moneyflow_data, heatmap_data, calls>>

\* lines 119-126: stock_data = get_stock_data(tickers, start_date, end_date)
FetchStockData ==
    /\ pc = "gate"
    /\ GateOpen
    /\ LET raw == yf_download(provider, heap[tickers], "range")
           r   == get_stock_data(raw)
       IN  /\ df' = raw
           /\ stock_data' = r.ret
           /\ out' = IF r.err = "" THEN out ELSE Append(out, Elem("error", r.err))
           /\ pc' = IF r.ret.none THEN "done" ELSE "chart"
    /\ calls' = Append(calls, "get_stock_data")
    /\ UNCHANGED <<ticker_input, date_range, provider, heap, tickers, moneyflow_tickers,
                   selected_stock, series, window, rsi, selected_sectors, df2,
                   moneyflow_data, heatmap_data>>

\* lines 127-132: price chart and the select box over tickers
PriceChart ==
    /\ pc = "chart"
    /\ out' = Append(out, Elem("line_chart", "stock_data"))
    /\ \E s \in Range(heap[tickers]) : selected_stock' = s
    /\ pc' = "indicators"
    /\ UNCHANGED <<ticker_input, date_range, provider, heap, tickers, moneyflow_tickers,
                   df, stock_data, series, window, rsi, selected_sectors, df2,
                   moneyflow_data, heatmap_data, calls>>

\* lines 134-157: RSI and MACD of the selected column, then
\* moneyflow_tickers = tickers binds the same list object
Indicators ==
    /\ pc = "indicators"
    /\ <<selected_stock>> \in stock_data.cols
    /\ series' = stock_data.val[<<selected_stock>>]
    /\ rsi' = calculate_rsi(series', window)
    /\ calls' = calls \o <<"calculate_rsi", "calculate_macd">>
    /\ out' = out \o <<Elem("pyplot", "RSI"), Elem("pyplot", "MACD")>>
    /\ moneyflow_tickers' = tickers
    /\ pc' = "sectors"
    /\ UNCHANGED <<ticker_input, date_range, provider, heap, tickers, df, stock_data,
                   selected_stock, window, selected_sectors, df2, moneyflow_data,
                   heatmap_data>>

\* line 134, condition false: the whole block up to line 211 is skipped
SkipIndicators ==
    /\ pc = "indicators"
    /\ <<selected_stock>> \notin stock_data.cols
    /\ pc' = "latest"
    /\ UNCHANGED <<ticker_input, date_range, provider, heap, tickers, moneyflow_tickers,
                   df, stock_data, selected_stock, series, window, rsi, selected_sectors,
                   df2, moneyflow_data, heatmap_data, calls, out>>

\* lines 187-189: for each ticked sector, in dictionary order, append its ETF
RECURSIVE append_sectors(_, _, _)
append_sectors(lst, checked, i) ==
    IF i > Len(sectors) THEN lst
    ELSE append_sectors(IF sectors[i][1] \in checked THEN Append(lst, sectors[i][2]) ELSE lst,
                        checked, i + 1)

\* lines 159-189: check boxes, then the append loop on moneyflow_tickers
SectorBoxes ==
    /\ pc = "sectors"
    /\ \E checked \in SUBSET {sectors[i][1] : i \in 1..MaxChecked} :
          /\ selected_sectors' = checked
          /\ heap' = [heap EXCEPT ![moneyflow_tickers] =
                         append_sectors(heap[moneyflow_tickers], checked, 1)]
    /\ out' = Append(out, Elem("title", "Stock Market Sector Performance"))
    /\ pc' = "moneyflow"
    /\ UNCHANGED <<ticker_input, date_range, provider, tickers, moneyflow_tickers, df,
                   stock_data, selected_stock, series, window, rsi, df2, moneyflow_data,
                   heatmap_data, calls>>

\* lines 199-200: the 5 day download for tickers, then calculate_money_flow
MoneyFlow ==
    /\ pc = "moneyflow"
    /\ df2' = yf_download(provider, heap[tickers], "5d")
    /\ moneyflow_data' = calculate_money_flow(df2', heap[moneyflow_tickers])
    /\ calls' = calls \o <<"yf.download", "calculate_money_flow">>
    /\ pc' = IF moneyflow_data'.raised THEN "crashed" ELSE "pivot"
    /\ UNCHANGED <<ticker_input, date_range, provider, heap, tickers, moneyflow_tickers,
                   df, stock_data, selected_stock, series, window, rsi, selected_sectors,
                   heatmap_data, out>>

\* lines 201-211: pivot and heat map
Heatmap ==
    /\ pc = "pivot"
    /\ heatmap_data' = pivot(moneyflow_data.rows)
    /\ calls' = Append(calls, "pivot")
    /\ out' = IF heatmap_data'.raised THEN out ELSE Append(out, Elem("pyplot", "heatmap"))
    /\ pc' = IF heatmap_data'.raised THEN "crashed" ELSE "latest"
    /\ UNCHANGED <<ticker_input, date_range, provider, heap, tickers, moneyflow_tickers,
                   df, stock_data, selected_stock, series, window, rsi, selected_sectors,
                   df2, moneyflow_data>>

\* lines 216-220: one metric or warning per element of tickers
latest_elements(tks, sd) ==
    [i \in 1..Len(tks) |->
        IF <<tks[i]>> \in sd.cols THEN Elem("metric", tks[i]) ELSE Elem("warning", tks[i])]

\* lines 213-220
LatestPrices ==
    /\ pc = "latest"
    /\ out' = (Append(out, Elem("subheader", "Latest Stock Prices")))
                 \o latest_elements(heap[tickers], stock_data)
    /\ calls' = Append(calls, "latest_prices")
    /\ pc' = "done"
    /\ UNCHANGED <<ticker_input, date_range, provider, heap, tickers, moneyflow_tickers,
                   df, stock_data, selected_stock, series, window, rsi, selected_sectors,
                   df2, moneyflow_data, heatmap_data>>

Next ==
    \/ ParseInput
    \/ WarnInvalid
    \/ FetchStockData
    \/ PriceChart
    \/ Indicators
    \/ SkipIndicators
    \/ SectorBoxes
    \/ MoneyFlow
    \/ Heatmap
    \/ LatestPrices

Spec == Init /\ [][Next]_vars

\* ------------------------------------------- calculate_rsi on its own inputs
Prices == {Num(100 + k) : k \in 0..MaxStep} \cup {NaN}

InitRsi ==
    /\ pc = "rsi_input"
    /\ series \in SeqsUpTo(Prices, 0, MaxLen)
    /\ window \in 1..MaxWindow
    /\ rsi = <<>>
    /\ ticker_input = <<>>
    /\ date_range = 2
    /\ provider = [flat |-> FALSE, hole |-> [kind |-> "none", f |-> "", t |-> ""], days |-> 0]
    /\ Unbound

ApplyRsi ==
    /\ pc = "rsi_input"
    /\ rsi' = calculate_rsi(series, window)
    /\ calls' = Append(calls, "calculate_rsi")
    /\ pc' = "rsi_done"
    /\ UNCHANGED <<ticker_input, date_range, provider, heap, tickers, moneyflow_tickers,
                   df, stock_data, selected_stock, series, window, selected_sectors,
                   df2, moneyflow_data, heatmap_data, out>>

NextRsi == ApplyRsi

SpecRsi == InitRsi /\ [][NextRsi]_vars

\* ================================================================== claims
\* the ticker list the user entered (line 95), whatever happened to it later
Requested == parse_tickers(ticker_input)

\* get_stock_data has returned in this pass
Fetched == calls # <<>> /\ calls[1] = "get_stock_data"

\* the 'Close' series of ticker t in a downloaded table of either shape
CloseOf(d, t) == IF d.multi THEN d.val[<<"Close", t>>] ELSE d.val[<<"Close">>]

\* C1: every table get_stock_data returns has exactly one column per requested
\* ticker, named by the ticker, holding that ticker's 'Close' values; no other
\* field is a column of the result.
C1_OneCloseColumnPerTicker ==
    (Fetched /\ ~stock_data.none) =>
        /\ stock_data.cols = {<<t>> : t \in Range(Requested)}
        /\ \A t \in Range(Requested) : stock_data.val[<<t>>] = CloseOf(df, t)

\* the tickers of a money-flow call that lack a required column in the table
Lacking(d, tks) ==
    {t \in Range(tks) :
        \E j \in 1..Len(required_columns) :
            IF d.multi THEN <<required_columns[j], t>> \notin d.cols
            ELSE <<required_columns[j]>> \notin d.cols}

MoneyFlowCalled == \E i \in 1..Len(calls) : calls[i] = "calculate_money_flow"

\* C2: when the table lacks a required column for exactly one of two requested
\* tickers, calculate_money_flow does not fail as a whole: it returns the rows
\* of the other ticker, one per date.
C2_PartialMoneyFlow ==
    LET tks == heap[moneyflow_tickers]
    IN  (/\ MoneyFlowCalled
         /\ Len(tks) = 2 /\ tks[1] # tks[2]
         /\ Cardinality(Lacking(df2, tks)) = 1)
        => /\ ~moneyflow_data.raised
           /\ \A t \in Range(tks) \ Lacking(df2, tks) :
                \A i \in 1..Len(df2.index) :
                    \E r \in 1..Len(moneyflow_data.rows) :
                        /\ moneyflow_data.rows[r].Ticker = t
                        /\ moneyflow_data.rows[r].Date = df2.index[i]

\* C3: the long-form money-flow output never holds two rows with the same
\* (date, ticker), so the pivot never fails with a duplicate key.
C3_NoDuplicateRows ==
    /\ \A i, j \in 1..Len(moneyflow_data.rows) :
          (/\ moneyflow_data.rows[i].Date = moneyflow_data.rows[j].Date
           /\ moneyflow_data.rows[i].Ticker = moneyflow_data.rows[j].Ticker) => i = j
    /\ ~heatmap_data.raised

\* C4: when the provider's table has zero rows, get_stock_data reports the
\* fetch failure and returns None, and nothing else of the pass runs: no chart,
\* no RSI/MACD, no money-flow download or aggregation, no latest prices.
C4_EmptyResultStopsPass ==
    (Fetched /\ Len(df.index) = 0) =>
        /\ stock_data.none
        /\ pc = "done"
        /\ calls = <<"get_stock_data">>
        /\ out = <<Elem("error", ErrFetch)>>
        /\ rsi = <<>> /\ df2 = None /\ moneyflow_data = NoResult
        /\ moneyflow_tickers = "unbound"

C4_Witness ==
    /\ Fetched /\ Len(df.index) = 0 /\ df.cols # {} /\ pc = "done"
    /\ out = <<Elem("error", ErrFetch)>>

\* a table with the same fields and values under the other column shape
Reshape(d, t) ==
    IF d.multi
    THEN LET cs == {<<c[1]>> : c \in d.cols}
         IN  Frame(FALSE, cs, d.index, [c \in cs |-> d.val[<<c[1], t>>]])
    ELSE LET cs == {<<c[1], t>> : c \in d.cols}
         IN  Frame(TRUE, cs, d.index, [c \in cs |-> d.val[<<c[1]>>]])

\* C6: for one requested ticker, the two-level table and the single-level table
\* with the same values give the same result from get_stock_data.
C6_ShapesNormalizeAlike ==
    (Fetched /\ Cardinality(Range(Requested)) = 1) =>
        get_stock_data(df).ret =
            get_stock_data(Reshape(df, CHOOSE t \in Range(Requested) : TRUE)).ret

\* C7: a non-empty table without 'Close' but with 'Adj Close' is normalized to
\* the 'Adj Close' series; the format error is reported only when neither
\* field is present.
C7_AdjCloseFallback ==
    (Fetched /\ ~empty(df) /\ "Close" \notin level0(df)) =>
        IF "Adj Close" \in level0(df)
        THEN /\ ~stock_data.none
             /\ \A i \in 1..Len(out) : out[i].kind # "error"
             /\ \A t \in Range(Requested) :
                   /\ <<t>> \in stock_data.cols
                   /\ stock_data.val[<<t>>] =
                        IF df.multi THEN df.val[<<"Adj Close", t>>]
                        ELSE df.val[<<"Adj Close">>]
        ELSE stock_data.none /\ out = <<Elem("error", ErrFormat)>>

\* C10: the name tickers keeps exactly the symbols the user typed for the whole
\* pass, so the 5 day download and the latest-prices loop see only those.
C10_UserTickersNotMutated ==
    (tickers # "unbound") =>
        /\ heap[tickers] = Requested
        /\ MoneyFlowCalled => df2 = yf_download(provider, Requested, "5d")
        /\ (calls # <<>> /\ calls[Len(calls)] = "latest_prices") =>
              \A i \in 1..Len(out) :
                  out[i].kind \in {"metric", "warning"} => out[i].arg \in Range(Requested)

\* ------------------------------------------------------ calculate_rsi claims
RsiDone == pc = "rsi_done"

\* C5: for a series of at least one point and a window >= 1 the RSI has the
\* length of the input, is defined at every position and lies in [0, 100].
C5_RsiBounded ==
    (RsiDone /\ Len(series) >= 1 /\ window >= 1) =>
        /\ Len(rsi) = Len(series)
        /\ \A t \in 1..Len(rsi) :
              /\ rsi[t].k = "num"
              /\ 0 <= rsi[t].n
              /\ rsi[t].n <= 100 * rsi[t].d

C5_Witness ==
    /\ RsiDone /\ Len(series) >= 3
    /\ \E t \in 1..Len(series) : IsNaN(series[t])
    /\ \E t \in 1..Len(rsi) : 0 < rsi[t].n /\ rsi[t].n < 100 * rsi[t].d /\ rsi[t] # Num(50)

\* every price is a number and none is below its predecessor
NoDecrease(s) ==
    \A i \in 1..Len(s) : ~IsNaN(s[i]) /\ (i > 1 => s[i].n * s[i-1].d >= s[i-1].n * s[i].d)

\* first position of the window that ends at t
WinLo(t, w) == IF t - w + 1 < 1 THEN 1 ELSE t - w + 1

\* C8 as stated: on a series with no decreases the RSI is 100 at every
\* position after the first window.
C8_NoDecreaseGives100 ==
    (RsiDone /\ NoDecrease(series)) =>
        \A t \in 1..Len(rsi) : t > window => rsi[t] = Num(100)

\* the window ending at t holds a strict increase
RisesIn(s, w, t) ==
    \E j \in WinLo(t, w)..t : j > 1 /\ s[j].n * s[j-1].d > s[j-1].n * s[j].d

\* C8 amended: on a series with no decreases the RSI at t is 100 when the
\* window ending at t holds at least one strict increase and 50 when it holds
\* none; a strictly increasing series gives 100 at every position but the first.
C8_RisingWindowGives100 ==
    (RsiDone /\ NoDecrease(series)) =>
        /\ Len(rsi) = Len(series)
        /\ \A t \in 1..Len(rsi) :
              rsi[t] = IF RisesIn(series, window, t) THEN Num(100) ELSE Num(50)

C8_Witness ==
    /\ RsiDone /\ NoDecrease(series) /\ Len(series) >= 3
    /\ \E t \in 1..Len(rsi) : t > window /\ rsi[t] = Num(50)
    /\ \E t \in 1..Len(rsi) : rsi[t] = Num(100)

\* reference definition, in integers: change at position i (0 at the first
\* position and where a price is missing), its gain and loss parts, and their
\* sums over positions lo..hi
RefDiff(s, i) ==
    IF i = 1 \/ IsNaN(s[i]) \/ IsNaN(s[i-1]) THEN 0 ELSE s[i].n - s[i-1].n

RefGain(s, i) == IF RefDiff(s, i) > 0 THEN RefDiff(s, i) ELSE 0

RefLoss(s, i) == IF RefDiff(s, i) < 0 THEN -RefDiff(s, i) ELSE 0

RECURSIVE RefGainSum(_, _, _)
RefGainSum(s, lo, hi) == IF lo > hi THEN 0 ELSE RefGainSum(s, lo, hi - 1) + RefGain(s, hi)

RECURSIVE RefLossSum(_, _, _)
RefLossSum(s, lo, hi) == IF lo > hi THEN 0 ELSE RefLossSum(s, lo, hi - 1) + RefLoss(s, hi)

\* v is the reference RSI at t. Both means divide by the same count, so
\* avgGain = 0 iff G = 0, avgLoss = 0 iff L = 0, and
\* 100 - 100/(1 + avgGain/avgLoss) = 100 G / (G + L).
IsRefRsi(v, s, w, t) ==
    LET G == RefGainSum(s, WinLo(t, w), t)
        L == RefLossSum(s, WinLo(t, w), t)
    IN  IF G = 0 /\ L = 0 THEN v = Num(50)
        ELSE IF L = 0 THEN v = Num(100)
        ELSE v.k = "num" /\ v.n * (G + L) = 100 * G * v.d

\* v rounded to two decimals, in hundredths
Hundredths(v) == (200 * v.n + v.d) \div (2 * v.d)

Closes3 == <<Num(100), Num(102), Num(101)>>

\* C9: at every position calculate_rsi equals the reference definition (50
\* when both means are 0, 100 when only the loss mean is 0, otherwise
\* 100 - 100/(1 + avgGain/avgLoss)); a constant series of n >= 2 points gives
\* 50 everywhere; closes [100, 102, 101] give gains [0,2,0], losses [0,0,1]
\* and RSI [50, 100, 66.67].
C9_RsiMatchesReference ==
    RsiDone =>
        /\ Len(rsi) = Len(series)
        /\ \A t \in 1..Len(rsi) : IsRefRsi(rsi[t], series, window, t)
        /\ (/\ Len(series) >= 2
            /\ \A i \in 1..Len(series) : series[i] = series[1] /\ ~IsNaN(series[i]))
           => \A t \in 1..Len(rsi) : rsi[t] = Num(50)
        /\ (series = Closes3 /\ window >= 3) =>
              /\ where_gt0(diff(series)) = <<Num(0), Num(2), Num(0)>>
              /\ neg(where_lt0(diff(series))) = <<Num(0), Num(0), Num(1)>>
              /\ rsi[1] = Num(50) /\ rsi[2] = Num(100)
              /\ rsi[3] = Rat(200, 3) /\ Hundredths(rsi[3]) = 6667

C9_Witness == RsiDone /\ series = Closes3 /\ window >= 3 /\ rsi[3] = Rat(200, 3)

====
